---- MODULE Spec2Model ----
(***************************************************************************)
(* Model of bis_c.c: a terminal-mode toggler built on tcgetattr/tcsetattr. *)
(* State: the terminal's attributes (held by the OS), the three globals    *)
(* bis_term_info, bis_term_info_set and bis_error_info, and a record of    *)
(* the calls made so far (what each returned, which OS calls it issued and *)
(* the state it started from).                                             *)
(*                                                                         *)
(* The OS is modelled as in the test plan of the specification: each of    *)
(* tcgetattr/tcsetattr either succeeds completely or fails and changes     *)
(* nothing; which one happens is an input of the call.                     *)
(***************************************************************************)
EXTENDS Integers, Sequences, FiniteSets

VARIABLES term, bis_term_info, bis_term_info_set, bis_error_info,
          queried, ever, trace, initial

vars == <<term, bis_term_info, bis_term_info_set, bis_error_info,
          queried, ever, trace, initial>>

(* ---------------- bounds ---------------- *)
MaxLflag == 3
MaxFlag == 1
MaxCc == 1
HistLen == 3

(* ---------------- termios ---------------- *)
ICANON == 2

Termios == [c_iflag : 0..MaxFlag, c_oflag : 0..MaxFlag, c_cflag : 0..MaxFlag,
            c_lflag : 0..MaxLflag, c_cc : 0..MaxCc]

\* the attribute sets the terminal starts with: every c_lflag, and for the
\* other flag words and the control characters a sample in which each field
\* takes every value of its range
InitialTermios ==
  { [c_iflag |-> k, c_oflag |-> MaxFlag - k, c_cflag |-> k, c_lflag |-> l, c_cc |-> c] :
      k \in 0..MaxFlag, l \in 0..MaxLflag, c \in 0..MaxCc }

\* a static struct termios is zero-initialised
ZeroTermios == [c_iflag |-> 0, c_oflag |-> 0, c_cflag |-> 0, c_lflag |-> 0, c_cc |-> 0]

RECURSIVE BitAndNot(_, _)
\* x & ~m on naturals
BitAndNot(x, m) ==
  IF x = 0 THEN 0
  ELSE (IF x % 2 = 1 /\ m % 2 = 0 THEN 1 ELSE 0) + 2 * BitAndNot(x \div 2, m \div 2)

RECURSIVE BitAnd(_, _)
BitAnd(x, m) ==
  IF x = 0 \/ m = 0 THEN 0
  ELSE (IF x % 2 = 1 /\ m % 2 = 1 THEN 1 ELSE 0) + 2 * BitAnd(x \div 2, m \div 2)

\* mutant: the complement is forgotten (c_lflag &= ICANON)
DisableCanonical_keepsOnlyIcanon(t) == [t EXCEPT !.c_lflag = BitAnd(@, ICANON)]

\* terminfo_p.c_lflag &= ~ICANON
DisableCanonical(t) == [t EXCEPT !.c_lflag = BitAndNot(@, ICANON)]

\* mutant: the snapshot is taken after canonical mode was disabled
memcpy_afterDisable(dst, src) == [src EXCEPT !.c_lflag = BitAndNot(@, ICANON)]

\* memcpy(&bis_term_info, &terminfo_p, sizeof(struct termios)): the new dst
memcpy(dst, src) == src

(* ---------------- the OS ---------------- *)
\* tcgetattr on a terminal whose attributes are t; out is <<>> when it fails
tcgetattr(t, ok) == IF ok THEN [rc |-> 0, out |-> <<t>>] ELSE [rc |-> -1, out |-> <<>>]

\* one OS call as it appears in the record of a call: its name and its result
Sys(name, r) == [call |-> name, rc |-> r.rc]

\* tcsetattr(fd, TCSAFLUSH, &attrs) on a terminal whose attributes are t
tcsetattr(t, attrs, ok) == IF ok THEN [rc |-> 0, term |-> attrs] ELSE [rc |-> -1, term |-> t]

(* ---------------- bis_error_info ---------------- *)
NULL == "NULL"

NoError == [error_str |-> NULL, is_errno |-> 0]

\* mutant: the message names the functions without their prefix and suffix
ErrBeforePrepare_shortNames ==
  [error_str |-> "restore called before prepare", is_errno |-> 0]

\* mutant: the query failure is flagged as not being an errno failure
ErrGetAttr_notErrno == [error_str |-> "Error getting terminal attributes", is_errno |-> 0]

ErrGetAttr == [error_str |-> "Error getting terminal attributes", is_errno |-> 1]

ErrSetAttr == [error_str |-> "Error setting terminal attributes", is_errno |-> 1]

ErrBeforePrepare ==
  [error_str |-> "bis_restore_terminal called before bis_prepare_terminal", is_errno |-> 0]

ErrRestoreAttr == [error_str |-> "Error restoring terminal attributes", is_errno |-> 1]

(* ---------------- the program state ---------------- *)
State(t, info, set, err) ==
  [term |-> t, bis_term_info |-> info, bis_term_info_set |-> set, bis_error_info |-> err]

Cur == State(term, bis_term_info, bis_term_info_set, bis_error_info)

\* the result of a call: the new state, the return value, the OS calls issued
\* and what tcgetattr reported (<<>> when it was not called or failed)
Result(st, rv, calls, got) == [st |-> st, ret |-> rv, os |-> calls, got |-> got]

(* ---------------- bis_prepare_terminal ---------------- *)
\* mutant: the snapshot and the flag are stored only once the apply succeeded
bis_prepare_terminal_saveAfterApply(st, getOk, setOk) ==
  LET g == tcgetattr(st.term, getOk) IN
  IF g.rc # 0
  THEN Result([st EXCEPT !.bis_error_info = ErrGetAttr], -1, <<Sys("tcgetattr", g)>>, g.out)
  ELSE
    LET terminfo_p == g.out[1]
        s == tcsetattr(st.term, DisableCanonical(terminfo_p), setOk)
    IN IF s.rc # 0
       THEN Result([st EXCEPT !.bis_error_info = ErrSetAttr],
                   -1, <<Sys("tcgetattr", g), Sys("tcsetattr", s)>>, g.out)
       ELSE Result([st EXCEPT !.term = s.term,
                              !.bis_term_info = memcpy(@, terminfo_p),
                              !.bis_term_info_set = 1],
                   0, <<Sys("tcgetattr", g), Sys("tcsetattr", s)>>, g.out)

\* mutant: the flag is raised on entry, before the query
bis_prepare_terminal_flagOnEntry(st, getOk, setOk) ==
  LET g == tcgetattr(st.term, getOk) IN
  IF g.rc # 0
  THEN Result([st EXCEPT !.bis_term_info_set = 1, !.bis_error_info = ErrGetAttr],
              -1, <<Sys("tcgetattr", g)>>, g.out)
  ELSE
    LET terminfo_p == g.out[1]
        saved == [st EXCEPT !.bis_term_info = memcpy(@, terminfo_p),
                            !.bis_term_info_set = 1]
        s == tcsetattr(st.term, DisableCanonical(terminfo_p), setOk)
    IN IF s.rc # 0
       THEN Result([saved EXCEPT !.bis_error_info = ErrSetAttr],
                   -1, <<Sys("tcgetattr", g), Sys("tcsetattr", s)>>, g.out)
       ELSE Result([saved EXCEPT !.term = s.term],
                   0, <<Sys("tcgetattr", g), Sys("tcsetattr", s)>>, g.out)

\* mutant: a snapshot that is already stored is kept (only the first is saved)
bis_prepare_terminal_keepsFirst(st, getOk, setOk) ==
  LET g == tcgetattr(st.term, getOk) IN
  IF g.rc # 0
  THEN Result([st EXCEPT !.bis_error_info = ErrGetAttr], -1, <<Sys("tcgetattr", g)>>, g.out)
  ELSE
    LET terminfo_p == g.out[1]
        saved == IF st.bis_term_info_set = 1 THEN st
                 ELSE [st EXCEPT !.bis_term_info = memcpy(@, terminfo_p),
                                 !.bis_term_info_set = 1]
        s == tcsetattr(st.term, DisableCanonical(terminfo_p), setOk)
    IN IF s.rc # 0
       THEN Result([saved EXCEPT !.bis_error_info = ErrSetAttr],
                   -1, <<Sys("tcgetattr", g), Sys("tcsetattr", s)>>, g.out)
       ELSE Result([saved EXCEPT !.term = s.term],
                   0, <<Sys("tcgetattr", g), Sys("tcsetattr", s)>>, g.out)

\* mutant: the flag is lowered again when the apply fails
bis_prepare_terminal_unsetOnApplyFailure(st, getOk, setOk) ==
  LET g == tcgetattr(st.term, getOk) IN
  IF g.rc # 0
  THEN Result([st EXCEPT !.bis_error_info = ErrGetAttr], -1, <<Sys("tcgetattr", g)>>, g.out)
  ELSE
    LET terminfo_p == g.out[1]
        saved == [st EXCEPT !.bis_term_info = memcpy(@, terminfo_p),
                            !.bis_term_info_set = 1]
        s == tcsetattr(st.term, DisableCanonical(terminfo_p), setOk)
    IN IF s.rc # 0
       THEN Result([saved EXCEPT !.bis_term_info_set = 0, !.bis_error_info = ErrSetAttr],
                   -1, <<Sys("tcgetattr", g), Sys("tcsetattr", s)>>, g.out)
       ELSE Result([saved EXCEPT !.term = s.term],
                   0, <<Sys("tcgetattr", g), Sys("tcsetattr", s)>>, g.out)

\* mutant: the copy to the global object is made before the result of the
\* query is tested, so a failed query stores a snapshot that was never filled in
bis_prepare_terminal_copiesBeforeTest(st, getOk, setOk) ==
  LET g == tcgetattr(st.term, getOk) IN
  IF g.rc # 0
  THEN Result([st EXCEPT !.bis_term_info = memcpy(@, ZeroTermios),
                         !.bis_error_info = ErrGetAttr],
              -1, <<Sys("tcgetattr", g)>>, g.out)
  ELSE
    LET terminfo_p == g.out[1]
        saved == [st EXCEPT !.bis_term_info = memcpy(@, terminfo_p),
                            !.bis_term_info_set = 1]
        s == tcsetattr(st.term, DisableCanonical(terminfo_p), setOk)
    IN IF s.rc # 0
       THEN Result([saved EXCEPT !.bis_error_info = ErrSetAttr],
                   -1, <<Sys("tcgetattr", g), Sys("tcsetattr", s)>>, g.out)
       ELSE Result([saved EXCEPT !.term = s.term],
                   0, <<Sys("tcgetattr", g), Sys("tcsetattr", s)>>, g.out)

\* int bis_prepare_terminal(): getOk, setOk say whether tcgetattr, tcsetattr succeed
bis_prepare_terminal(st, getOk, setOk) ==
  LET g == tcgetattr(st.term, getOk) IN
  IF g.rc # 0
  THEN Result([st EXCEPT !.bis_error_info = ErrGetAttr], -1, <<Sys("tcgetattr", g)>>, g.out)
  ELSE
    LET terminfo_p == g.out[1]
        saved == [st EXCEPT !.bis_term_info = memcpy(@, terminfo_p),
                            !.bis_term_info_set = 1]
        s == tcsetattr(st.term, DisableCanonical(terminfo_p), setOk)
    IN IF s.rc # 0
       THEN Result([saved EXCEPT !.bis_error_info = ErrSetAttr],
                   -1, <<Sys("tcgetattr", g), Sys("tcsetattr", s)>>, g.out)
       ELSE Result([saved EXCEPT !.term = s.term],
                   0, <<Sys("tcgetattr", g), Sys("tcsetattr", s)>>, g.out)

(* ---------------- bis_restore_terminal ---------------- *)
\* mutant: the check of bis_term_info_set is missing
bis_restore_terminal_noCheck(st, setOk) ==
  LET s == tcsetattr(st.term, st.bis_term_info, setOk)
  IN IF s.rc # 0
     THEN Result([st EXCEPT !.bis_error_info = ErrRestoreAttr], -1, <<Sys("tcsetattr", s)>>, <<>>)
     ELSE Result([st EXCEPT !.term = s.term], 0, <<Sys("tcsetattr", s)>>, <<>>)

\* mutant: a successful restore consumes the snapshot
bis_restore_terminal_consumes(st, setOk) ==
  IF st.bis_term_info_set # 1
  THEN Result([st EXCEPT !.bis_error_info = ErrBeforePrepare], -1, <<>>, <<>>)
  ELSE
    LET s == tcsetattr(st.term, st.bis_term_info, setOk)
    IN IF s.rc # 0
       THEN Result([st EXCEPT !.bis_error_info = ErrRestoreAttr], -1, <<Sys("tcsetattr", s)>>, <<>>)
       ELSE Result([st EXCEPT !.term = s.term, !.bis_term_info_set = 0],
                   0, <<Sys("tcsetattr", s)>>, <<>>)

\* mutant: a successful restore clears bis_error_info
bis_restore_terminal_clearsError(st, setOk) ==
  IF st.bis_term_info_set # 1
  THEN Result([st EXCEPT !.bis_error_info = ErrBeforePrepare], -1, <<>>, <<>>)
  ELSE
    LET s == tcsetattr(st.term, st.bis_term_info, setOk)
    IN IF s.rc # 0
       THEN Result([st EXCEPT !.bis_error_info = ErrRestoreAttr], -1, <<Sys("tcsetattr", s)>>, <<>>)
       ELSE Result([st EXCEPT !.term = s.term, !.bis_error_info = NoError],
                   0, <<Sys("tcsetattr", s)>>, <<>>)

\* int bis_restore_terminal(): setOk says whether tcsetattr succeeds
bis_restore_terminal(st, setOk) ==
  IF st.bis_term_info_set # 1
  THEN Result([st EXCEPT !.bis_error_info = ErrBeforePrepare], -1, <<>>, <<>>)
  ELSE
    LET s == tcsetattr(st.term, st.bis_term_info, setOk)
    IN IF s.rc # 0
       THEN Result([st EXCEPT !.bis_error_info = ErrRestoreAttr], -1, <<Sys("tcsetattr", s)>>, <<>>)
       ELSE Result([st EXCEPT !.term = s.term], 0, <<Sys("tcsetattr", s)>>, <<>>)

(* ---------------- the record of calls ---------------- *)
\* one entry per call: the function, its return value, the OS calls it issued
\* with their results, and the state the call started from
Entry(op, r, pre) == [op |-> op, ret |-> r.ret, os |-> r.os, pre |-> pre]

\* the last HistLen entries are kept
Record(e) == IF Len(trace) < HistLen THEN Append(trace, e) ELSE Append(Tail(trace), e)

Commit(op, r) ==
  /\ term' = r.st.term
  /\ bis_term_info' = r.st.bis_term_info
  /\ bis_term_info_set' = r.st.bis_term_info_set
  /\ bis_error_info' = r.st.bis_error_info
  /\ queried' = IF r.got # <<>> THEN r.got ELSE queried
  /\ ever' = [prepare_called |-> ever.prepare_called \/ op = "prepare",
              prepare_ok |-> ever.prepare_ok \/ (op = "prepare" /\ r.ret = 0),
              query_ok |-> ever.query_ok \/ r.got # <<>>,
              failed |-> ever.failed \/ r.ret # 0]
  /\ trace' = Record(Entry(op, r, Cur))
  /\ UNCHANGED initial

(* ---------------- the state machine ---------------- *)
Init ==
  /\ term \in InitialTermios
  /\ bis_term_info = ZeroTermios
  /\ bis_term_info_set = 0
  /\ bis_error_info = NoError
  /\ queried = <<>>
  /\ ever = [prepare_called |-> FALSE, prepare_ok |-> FALSE, query_ok |-> FALSE,
             failed |-> FALSE]
  /\ trace = <<>>
  /\ initial = term

Prepare == \E getOk \in BOOLEAN, setOk \in BOOLEAN :
  Commit("prepare", bis_prepare_terminal(Cur, getOk, setOk))

Restore == \E setOk \in BOOLEAN :
  Commit("restore", bis_restore_terminal(Cur, setOk))

Next == Prepare \/ Restore

Spec == Init /\ [][Next]_vars

(* ---------------- reading the record ---------------- *)
N == Len(trace)

Last == trace[N]

Prev == trace[N - 1]

Called(e, op) == e.op = op

Ok(e, op) == e.op = op /\ e.ret = 0

Failed(e, op) == e.op = op /\ e.ret = -1

IcanonSet(t) == BitAnd(t.c_lflag, ICANON) # 0

TypeOK ==
  /\ term \in Termios
  /\ bis_term_info \in Termios
  /\ bis_term_info_set \in {0, 1}
  /\ bis_error_info \in {NoError, ErrGetAttr, ErrSetAttr, ErrBeforePrepare, ErrRestoreAttr}
  /\ Len(trace) <= HistLen

\* the OS call of that name was issued by the call e, and it returned rc
Issued(e, name) == \E i \in 1..Len(e.os) : e.os[i].call = name

Returned(e, name, rc) == \E i \in 1..Len(e.os) : e.os[i].call = name /\ e.os[i].rc = rc

\* the prepare call e failed at its query, or at its apply
QueryFailed(e) == e.op = "prepare" /\ Returned(e, "tcgetattr", -1)

ApplyFailed(e) ==
  e.op = "prepare" /\ Returned(e, "tcgetattr", 0) /\ Returned(e, "tcsetattr", -1)

\* every field other than the ICANON bit of c_lflag agrees
SameButIcanon(a, b) ==
  /\ a.c_iflag = b.c_iflag
  /\ a.c_oflag = b.c_oflag
  /\ a.c_cflag = b.c_cflag
  /\ a.c_cc = b.c_cc
  /\ BitAndNot(a.c_lflag, ICANON) = BitAndNot(b.c_lflag, ICANON)

(* ======================= the claims ======================= *)

\* C1: round trip. When bis_prepare_terminal succeeds and the next call is a
\* successful bis_restore_terminal, the terminal's attributes equal the ones
\* it had before the prepare call, the canonical-mode flag included.
C1_RoundTrip ==
  (N >= 2 /\ Ok(Prev, "prepare") /\ Ok(Last, "restore")) => term = Prev.pre.term

C1_Witness ==
  /\ N >= 2 /\ Ok(Prev, "prepare") /\ Ok(Last, "restore")
  /\ IcanonSet(Prev.pre.term) /\ IcanonSet(term)
  /\ ~IcanonSet(Last.pre.term)

\* C2: after every successful bis_prepare_terminal the ICANON flag of the
\* terminal is clear and every other attribute field has the value it had
\* immediately before the call.
C2_PrepareClearsOnlyIcanon ==
  (N >= 1 /\ Ok(Last, "prepare")) =>
     /\ ~IcanonSet(term)
     /\ SameButIcanon(term, Last.pre.term)

C2_Witness ==
  /\ N >= 1 /\ Ok(Last, "prepare")
  /\ IcanonSet(Last.pre.term)
  /\ Last.pre.term.c_lflag # ICANON
  /\ Last.pre.term.c_iflag # 0

\* C3: bis_restore_terminal called when no bis_prepare_terminal call preceded
\* it returns failure with the restore-before-prepare error (is_errno 0),
\* issues no tcsetattr call and leaves the terminal attributes unchanged.
C3_RestoreWithoutPrepare ==
  (N >= 1 /\ Called(Last, "restore") /\ ~ever.prepare_called) =>
     /\ Last.ret = -1
     /\ bis_error_info = ErrBeforePrepare
     /\ bis_error_info.is_errno = 0
     /\ ~Issued(Last, "tcsetattr")
     /\ term = Last.pre.term

C3_Witness ==
  /\ N >= 2 /\ Called(Prev, "restore") /\ Called(Last, "restore")
  /\ ~ever.prepare_called
  /\ term # ZeroTermios

\* C4: when tcsetattr fails inside bis_prepare_terminal after tcgetattr
\* succeeded, the call returns failure, yet the attributes the terminal had
\* before the call are stored and bis_term_info_set is 1; a bis_restore_terminal
\* that follows and whose tcsetattr succeeds returns success and sets the
\* terminal to the attributes it had before that prepare call.
C4_SnapshotSurvivesApplyFailure ==
  /\ (N >= 1 /\ ApplyFailed(Last)) =>
        /\ Last.ret = -1
        /\ bis_term_info = Last.pre.term
        /\ bis_term_info_set = 1
  /\ (N >= 2 /\ ApplyFailed(Prev) /\ Called(Last, "restore")) =>
        /\ Issued(Last, "tcsetattr")
        /\ Returned(Last, "tcsetattr", 0) => (Last.ret = 0 /\ term = Prev.pre.term)

C4_Witness ==
  /\ N >= 2 /\ ApplyFailed(Prev) /\ Ok(Last, "restore")
  /\ Prev.pre.bis_term_info_set = 0
  /\ IcanonSet(term)

\* C5: when tcgetattr fails inside bis_prepare_terminal the call returns
\* failure, bis_error_info.is_errno is 1 afterwards and bis_term_info_set has
\* the value it had before the call.
C5_QueryFailure ==
  (N >= 1 /\ QueryFailed(Last)) =>
     /\ Last.ret = -1
     /\ bis_error_info.is_errno = 1
     /\ bis_term_info_set = Last.pre.bis_term_info_set

C5_Witness ==
  /\ N >= 1 /\ QueryFailed(Last)
  /\ Last.pre.bis_term_info_set = 1
  /\ Last.pre.bis_error_info.is_errno = 0
  /\ Last.pre.bis_error_info # NoError

\* C6: a successful bis_restore_terminal leaves the terminal with the
\* attributes reported to the most recent bis_prepare_terminal call that
\* captured any; after two successive successful prepare calls a successful
\* restore sets the terminal to what the second prepare captured (canonical
\* mode off), not to the attributes that held before the first prepare.
C6_RestoresMostRecentCapture ==
  /\ (N >= 1 /\ Ok(Last, "restore")) =>
        /\ queried # <<>>
        /\ term = queried[1]
  /\ (N >= 3 /\ Ok(trace[N - 2], "prepare") /\ Ok(Prev, "prepare") /\ Ok(Last, "restore")) =>
        /\ term = Prev.pre.term
        /\ ~IcanonSet(term)
        /\ (IcanonSet(trace[N - 2].pre.term) => term # trace[N - 2].pre.term)

C6_Witness ==
  /\ N >= 3 /\ Ok(trace[N - 2], "prepare") /\ Ok(Prev, "prepare") /\ Ok(Last, "restore")
  /\ IcanonSet(trace[N - 2].pre.term)
  /\ term # trace[N - 2].pre.term

\* C7: bis_term_info_set starts at 0, and once it is 1 no call of either
\* function, succeeding or failing, makes it 0 again.
C7_PreparedFlagMonotonic ==
  /\ bis_term_info_set = 0
  /\ [][bis_term_info_set = 1 => bis_term_info_set' = 1]_vars

C7_Witness ==
  /\ N >= 2
  /\ Prev.pre.bis_term_info_set = 1
  /\ ApplyFailed(Prev)
  /\ Failed(Last, "restore")
  /\ bis_term_info_set = 1

\* C8 as stated: while no bis_prepare_terminal call has returned success,
\* bis_term_info_set is 0.
C8_Original == ~ever.prepare_ok => bis_term_info_set = 0

\* C8 amended: bis_term_info_set becomes 1 only through a
\* bis_prepare_terminal call whose tcgetattr succeeded (whether or not that
\* call then returned success): while no such call has happened the flag is 0,
\* and a bis_restore_terminal called then fails with the
\* restore-before-prepare error.
C8_FlagFollowsQuery ==
  /\ ~ever.query_ok => bis_term_info_set = 0
  /\ (N >= 1 /\ Called(Last, "restore") /\ ~ever.query_ok) =>
        /\ Last.ret = -1
        /\ bis_error_info = ErrBeforePrepare

C8_Witness ==
  /\ N >= 2
  /\ QueryFailed(Prev)
  /\ Failed(Last, "restore")
  /\ ~ever.query_ok

\* C9: bis_error_info is the record written by the most recent failing call,
\* or the initial empty record when no call has failed: a failing call
\* overwrites it (is_errno 1 for the three OS-call failures, 0 for restore
\* before prepare) and a successful call leaves it as it was.
Written(e) ==
  CASE e.op = "prepare" /\ Returned(e, "tcgetattr", -1) -> ErrGetAttr
    [] e.op = "prepare" /\ Returned(e, "tcsetattr", -1) -> ErrSetAttr
    [] e.op = "restore" /\ Returned(e, "tcsetattr", -1) -> ErrRestoreAttr
    [] e.op = "restore" /\ e.os = <<>> -> ErrBeforePrepare

C9_LastErrorIsLastFailure ==
  /\ ~ever.failed => bis_error_info = NoError
  /\ (N >= 1 /\ Last.ret = -1) =>
        /\ bis_error_info = Written(Last)
        /\ bis_error_info.is_errno = (IF Last.os = <<>> THEN 0 ELSE 1)
        /\ bis_error_info.error_str # NULL
  /\ (N >= 1 /\ Last.ret = 0) => bis_error_info = Last.pre.bis_error_info

C9_Witness ==
  /\ N >= 3
  /\ Failed(trace[N - 2], "restore")
  /\ ApplyFailed(Prev)
  /\ Ok(Last, "restore")
  /\ bis_error_info = ErrSetAttr

\* C10: bis_restore_terminal never changes bis_term_info or
\* bis_term_info_set, whether it succeeds or fails; successive successful
\* restore calls each leave the terminal with the same saved attributes.
C10_RestoreKeepsSnapshot ==
  /\ (N >= 1 /\ Called(Last, "restore")) =>
        /\ bis_term_info = Last.pre.bis_term_info
        /\ bis_term_info_set = Last.pre.bis_term_info_set
  /\ (N >= 2 /\ Ok(Prev, "restore") /\ Called(Last, "restore")) =>
        /\ Issued(Last, "tcsetattr")
        /\ term = Last.pre.term
        /\ Returned(Last, "tcsetattr", 0) => (Last.ret = 0 /\ term = bis_term_info)

C10_Witness ==
  /\ N >= 3
  /\ Ok(trace[N - 2], "prepare") /\ IcanonSet(trace[N - 2].pre.term)
  /\ Ok(Prev, "restore") /\ Ok(Last, "restore")
  /\ IcanonSet(term)

\* the restore call e failed at its apply
RestoreApplyFailed(e) == e.op = "restore" /\ Returned(e, "tcsetattr", -1)

\* C11 as stated: a call in which tcgetattr or tcsetattr fails leaves
\* bis_term_info_set at the value it had before the call.
C11_Original ==
  (N >= 1 /\ (QueryFailed(Last) \/ ApplyFailed(Last) \/ RestoreApplyFailed(Last))) =>
     bis_term_info_set = Last.pre.bis_term_info_set

\* C11 amended: a failing tcgetattr in bis_prepare_terminal and a failing
\* tcsetattr in bis_restore_terminal leave bis_term_info_set at the value it
\* had before the call; a bis_prepare_terminal call whose tcsetattr fails
\* leaves it at 1, the value its preceding successful query set, so it changes
\* the flag exactly when the flag was 0 before the call.
C11_OsFailureAndFlag ==
  /\ (N >= 1 /\ (QueryFailed(Last) \/ RestoreApplyFailed(Last))) =>
        bis_term_info_set = Last.pre.bis_term_info_set
  /\ (N >= 1 /\ ApplyFailed(Last)) => bis_term_info_set = 1

C11_Witness ==
  /\ N >= 3
  /\ QueryFailed(trace[N - 2]) /\ trace[N - 2].pre.bis_term_info_set = 0
  /\ ApplyFailed(Prev) /\ Prev.pre.bis_term_info_set = 0
  /\ RestoreApplyFailed(Last)
  /\ bis_term_info_set = 1

\* C12: a bis_prepare_terminal call whose tcgetattr fails issues no tcsetattr
\* and leaves the terminal attributes and bis_term_info unchanged; when an
\* earlier prepare stored a snapshot, a successful bis_restore_terminal after
\* the failed call still applies that earlier snapshot.
C12_QueryFailureTouchesNothing ==
  /\ (N >= 1 /\ QueryFailed(Last)) =>
        /\ Last.os = <<Sys("tcgetattr", [rc |-> -1])>>
        /\ ~Issued(Last, "tcsetattr")
        /\ term = Last.pre.term
        /\ bis_term_info = Last.pre.bis_term_info
  /\ (N >= 2 /\ QueryFailed(Prev) /\ Prev.pre.bis_term_info_set = 1
           /\ Ok(Last, "restore")) =>
        term = Prev.pre.bis_term_info

C12_Witness ==
  /\ N >= 3
  /\ Ok(trace[N - 2], "prepare") /\ IcanonSet(trace[N - 2].pre.term)
  /\ QueryFailed(Prev) /\ ~IcanonSet(Prev.pre.term)
  /\ Ok(Last, "restore")
  /\ IcanonSet(term)

\* C13: only the canonical-mode flag is ever altered. In every reachable
\* state the terminal attributes, and bis_term_info whenever
\* bis_term_info_set is 1, equal the attributes the terminal started with in
\* every field other than the ICANON bit of c_lflag.
C13_OnlyIcanonAltered ==
  /\ SameButIcanon(term, initial)
  /\ bis_term_info_set = 1 => SameButIcanon(bis_term_info, initial)

C13_Witness ==
  /\ N >= 3
  /\ Ok(trace[N - 2], "prepare") /\ Ok(Prev, "restore") /\ Ok(Last, "prepare")
  /\ IcanonSet(initial) /\ initial.c_lflag # ICANON
  /\ initial.c_iflag # 0 /\ initial.c_cc # 0
  /\ term # initial
  /\ bis_term_info = initial

\* C14 as stated: bis_restore_terminal called while bis_term_info_set is 0
\* returns failure and leaves bis_error_info with the message
\* "restore called before prepare" and is_errno 0.
C14_Original ==
  (N >= 1 /\ Called(Last, "restore") /\ Last.pre.bis_term_info_set = 0) =>
     /\ Last.ret = -1
     /\ bis_error_info = [error_str |-> "restore called before prepare", is_errno |-> 0]

\* C14 amended: bis_restore_terminal called while bis_term_info_set is 0
\* returns failure and leaves bis_error_info with the message
\* "bis_restore_terminal called before bis_prepare_terminal" and is_errno 0.
C14_RestoreBeforePrepareRecord ==
  (N >= 1 /\ Called(Last, "restore") /\ Last.pre.bis_term_info_set = 0) =>
     /\ Last.ret = -1
     /\ bis_error_info =
          [error_str |-> "bis_restore_terminal called before bis_prepare_terminal",
           is_errno |-> 0]

C14_Witness ==
  /\ N >= 2
  /\ QueryFailed(Prev)
  /\ Called(Last, "restore") /\ Last.pre.bis_term_info_set = 0
  /\ Last.pre.bis_error_info = ErrGetAttr
  /\ bis_error_info.is_errno = 0

====
